---- MODULE Spec2Model ----
(***************************************************************************)
(* Model of the markdown_ld_nif native module                              *)
(* (src/native/markdown_ld_nif/src/lib.rs): four NIFs, parse_markdown,     *)
(* extract_links, extract_headings and validate_links, each taking one     *)
(* binary and returning a tagged tuple.                                    *)
(*                                                                         *)
(* A binary is a sequence of bytes (0..255).  A &str is the same byte      *)
(* sequence once std::str::from_utf8 has validated it; its chars are the   *)
(* code points that start at the non-continuation bytes.  A JSON value is  *)
(* a tagged record; a returned term is a tuple of atoms and strings.       *)
(***************************************************************************)
EXTENDS Integers, Sequences, FiniteSets, TLC

VARIABLES pc, op, binary, result, ret, memo

vars == <<pc, op, binary, result, ret, memo>>

(***************************************************************************)
(* Bounds of the model.                                                    *)
(***************************************************************************)
\* longest input built as a run of one-letter words
MaxWords == 401
\* most fragments concatenated into one input of a single call
MaxFrags == 2
\* most fragments concatenated into one input in a sequence of calls
MaxCallFrags == 1

(***************************************************************************)
(* atoms (lib.rs 4-11)                                                     *)
(***************************************************************************)
ok == [atom |-> "ok"]
error == [atom |-> "error"]
invalid_markdown == [atom |-> "invalid_markdown"]
processing_error == [atom |-> "processing_error"]

(***************************************************************************)
(* std::str::from_utf8 (lib.rs 15).  utf8_char_width is the width table of *)
(* the validator: 0 marks a byte that cannot start a character.            *)
(***************************************************************************)
IsCont(b) == b >= 128 /\ b <= 191

utf8_char_width(b) ==
    IF b < 128 THEN 1
    ELSE IF b >= 194 /\ b <= 223 THEN 2
    ELSE IF b >= 224 /\ b <= 239 THEN 3
    ELSE IF b >= 240 /\ b <= 244 THEN 4
    ELSE 0

\* the character starting at byte i is a complete, well-formed sequence
SeqOkAt(v, i) ==
    LET first == v[i]
        w == utf8_char_width(first)
    IN  /\ w # 0
        /\ i + w - 1 <= Len(v)
        /\ w >= 2 =>
             LET second == v[i + 1]
             IN  CASE w = 2 -> IsCont(second)
                   [] w = 3 ->
                        \/ first = 224 /\ second >= 160 /\ second <= 191
                        \/ first >= 225 /\ first <= 236 /\ IsCont(second)
                        \/ first = 237 /\ second >= 128 /\ second <= 159
                        \/ first >= 238 /\ first <= 239 /\ IsCont(second)
                   [] w = 4 ->
                        \/ first = 240 /\ second >= 144 /\ second <= 191
                        \/ first >= 241 /\ first <= 243 /\ IsCont(second)
                        \/ first = 244 /\ second >= 128 /\ second <= 143
        /\ \A k \in 2..(w - 1) : IsCont(v[i + k])

\* the continuation byte at j belongs to the character that starts at the
\* nearest non-continuation byte before it
CoveredAt(v, j) ==
    \E k \in 1..3 :
        /\ j - k >= 1
        /\ ~IsCont(v[j - k])
        /\ \A m \in 1..(k - 1) : IsCont(v[j - m])
        /\ utf8_char_width(v[j - k]) > k

\* Ok(s) where s is the same bytes, or Err
from_utf8(v) ==
    [ok |-> \A i \in 1..Len(v) :
                IF IsCont(v[i]) THEN CoveredAt(v, i) ELSE SeqOkAt(v, i),
     s |-> v]

(***************************************************************************)
(* str::split_whitespace().count() (lib.rs 21)                             *)
(***************************************************************************)
\* the code point of the character that starts at byte i of a valid str
CharAt(s, i) ==
    LET w == utf8_char_width(s[i])
    IN  CASE w = 1 -> s[i]
          [] w = 2 -> (s[i] - 192) * 64 + (s[i + 1] - 128)
          [] w = 3 -> (s[i] - 224) * 4096 + (s[i + 1] - 128) * 64
                        + (s[i + 2] - 128)
          [] w = 4 -> (s[i] - 240) * 262144 + (s[i + 1] - 128) * 4096
                        + (s[i + 2] - 128) * 64 + (s[i + 3] - 128)
          [] OTHER -> s[i]

\* char::is_whitespace: the Unicode White_Space property
is_whitespace(c) ==
    \/ c >= 9 /\ c <= 13
    \/ c \in {32, 133, 160, 5760, 8232, 8233, 8239, 8287, 12288}
    \/ c >= 8192 /\ c <= 8202

\* the byte at which the character before the one at i starts (0 if none)
PrevStart(s, i) ==
    IF i = 1 THEN 0
    ELSE CHOOSE j \in (IF i > 4 THEN i - 4 ELSE 1)..(i - 1) :
            /\ ~IsCont(s[j])
            /\ \A m \in (j + 1)..(i - 1) : IsCont(s[m])

\* a token starts at a non-whitespace character that is the first character
\* or follows a whitespace character
TokenStartAt(s, i) ==
    /\ ~IsCont(s[i])
    /\ ~is_whitespace(CharAt(s, i))
    /\ LET p == PrevStart(s, i)
       IN  p = 0 \/ is_whitespace(CharAt(s, p))

word_count(markdown_str) ==
    Cardinality({i \in 1..Len(markdown_str) : TokenStartAt(markdown_str, i)})

(***************************************************************************)
(* reading time (lib.rs 22): (word_count as f64 / 200.0).ceil() as usize.  *)
(* The conversion to f64 is exact below 2^53, the quotient of a            *)
(* non-multiple of 200 is not an integer, so ceil is the integer ceiling.  *)
(***************************************************************************)
WordsPerMinute == 200

\* the quotient truncated instead of rounded up
reading_time_floor(wc) == wc \div WordsPerMinute

\* the quotient rounded up and then clamped to at least one minute
reading_time_min_one(wc) ==
    IF wc % WordsPerMinute = 0 /\ wc > 0
    THEN wc \div WordsPerMinute
    ELSE wc \div WordsPerMinute + 1

reading_time(wc) ==
    IF wc % WordsPerMinute = 0
    THEN wc \div WordsPerMinute
    ELSE wc \div WordsPerMinute + 1

(***************************************************************************)
(* serde_json values (lib.rs 24-35, 44, 52, 60) and Value::to_string       *)
(* (lib.rs 37, 45, 53, 61).  An object is a map from keys to values; the   *)
(* default serde_json map is a BTreeMap, which serialises its keys in      *)
(* sorted order.                                                           *)
(***************************************************************************)
json_null == [t |-> "null"]
json_number(n) == [t |-> "number", n |-> n]
json_array(a) == [t |-> "array", a |-> a]
json_object(o) == [t |-> "object", o |-> o]

\* the keys any object of this module has, in BTreeMap order
SortedKeys ==
    <<"backlinks", "code_blocks", "frontmatter", "headings", "links",
      "metadata", "reading_time_minutes", "table_of_contents", "tasks",
      "word_count">>

Digit(d) == <<"0", "1", "2", "3", "4", "5", "6", "7", "8", "9">>[d + 1]

RECURSIVE Decimal(_)
Decimal(n) == IF n < 10 THEN Digit(n) ELSE Decimal(n \div 10) \o Digit(n % 10)

RECURSIVE to_string(_), JoinArray(_, _), JoinObject(_, _, _)
JoinArray(a, i) ==
    IF i > Len(a) THEN ""
    ELSE (IF i > 1 THEN "," ELSE "") \o to_string(a[i]) \o JoinArray(a, i + 1)

JoinObject(o, keys, i) ==
    IF i > Len(keys) THEN ""
    ELSE (IF i > 1 THEN "," ELSE "") \o "\"" \o keys[i] \o "\":"
            \o to_string(o[keys[i]]) \o JoinObject(o, keys, i + 1)

to_string(v) ==
    CASE v.t = "null" -> "null"
      [] v.t = "number" -> Decimal(v.n)
      [] v.t = "array" -> "[" \o JoinArray(v.a, 1) \o "]"
      [] v.t = "object" ->
            "{" \o JoinObject(v.o,
                              SelectSeq(SortedKeys,
                                        LAMBDA k : k \in DOMAIN v.o), 1)
                \o "}"

\* the document with the metadata field left out
document_no_metadata(wc, rt) ==
    json_object([links |-> json_array(<<>>),
                 headings |-> json_array(<<>>),
                 code_blocks |-> json_array(<<>>),
                 tasks |-> json_array(<<>>),
                 word_count |-> json_number(wc),
                 reading_time_minutes |-> json_number(rt),
                 table_of_contents |-> json_array(<<>>),
                 backlinks |-> json_array(<<>>),
                 frontmatter |-> json_null])

\* the document with a backlink edge recorded for a document that has words
document_backlinked(wc, rt) ==
    json_object([links |-> json_array(<<>>),
                 headings |-> json_array(<<>>),
                 code_blocks |-> json_array(<<>>),
                 tasks |-> json_array(<<>>),
                 word_count |-> json_number(wc),
                 reading_time_minutes |-> json_number(rt),
                 metadata |-> json_object(<<>>),
                 table_of_contents |-> json_array(<<>>),
                 backlinks |-> json_array(IF wc > 0 THEN <<json_null>>
                                          ELSE <<>>),
                 frontmatter |-> json_null])

\* the json! literal of parse_markdown
document(wc, rt) ==
    json_object([links |-> json_array(<<>>),
                 headings |-> json_array(<<>>),
                 code_blocks |-> json_array(<<>>),
                 tasks |-> json_array(<<>>),
                 word_count |-> json_number(wc),
                 reading_time_minutes |-> json_number(rt),
                 metadata |-> json_object(<<>>),
                 table_of_contents |-> json_array(<<>>),
                 backlinks |-> json_array(<<>>),
                 frontmatter |-> json_null])

\* no value: a local that was never bound, a term not yet returned
Unset == [t |-> "unset"]

(***************************************************************************)
(* The four NIFs as functions from the argument to the local JSON value    *)
(* (Unset when the function returns before building one) and the term      *)
(* returned to the caller.                                                 *)
(***************************************************************************)
Outcome(value, term) == [result |-> value, ret |-> term]

\* a Rust String encoded as a term: an Erlang binary
StringTerm(json_str) == [binary |-> json_str]

\* a word count that adds to the count a remembered earlier call left behind
word_count_accum(markdown_str) ==
    word_count(markdown_str)
        + (IF memo # Unset /\ memo.result # Unset /\ memo.result.t = "object"
           THEN memo.result.o.word_count.n ELSE 0)

\* parse_markdown that falls back to an empty document when decoding fails
parse_markdown_lossy(markdown_binary) ==
    LET decoded == from_utf8(markdown_binary)
    IN  IF ~decoded.ok
        THEN Outcome(document(0, 0),
                     <<ok, StringTerm(to_string(document(0, 0)))>>)
        ELSE LET wc == word_count(decoded.s)
                 value == document(wc, reading_time(wc))
             IN  Outcome(value, <<ok, StringTerm(to_string(value))>>)

\* parse_markdown whose word count is carried over from call to call
parse_markdown_accum(markdown_binary) ==
    LET decoded == from_utf8(markdown_binary)
    IN  IF ~decoded.ok
        THEN Outcome(Unset, <<error, invalid_markdown>>)
        ELSE LET wc == word_count_accum(decoded.s)
                 value == document(wc, reading_time(wc))
             IN  Outcome(value, <<ok, StringTerm(to_string(value))>>)

parse_markdown(markdown_binary) ==
    LET decoded == from_utf8(markdown_binary)
    IN  IF ~decoded.ok
        THEN Outcome(Unset, <<error, invalid_markdown>>)
        ELSE LET wc == word_count(decoded.s)
                 value == document(wc, reading_time(wc))
             IN  Outcome(value, <<ok, StringTerm(to_string(value))>>)

\* extract_links that decodes its argument first, as parse_markdown does
extract_links_decoding(markdown_binary) ==
    IF from_utf8(markdown_binary).ok
    THEN Outcome(json_array(<<>>),
                 <<ok, StringTerm(to_string(json_array(<<>>)))>>)
    ELSE Outcome(Unset, <<error, invalid_markdown>>)

extract_links(markdown_binary) ==
    Outcome(json_array(<<>>),
            <<ok, StringTerm(to_string(json_array(<<>>)))>>)

extract_headings(markdown_binary) ==
    Outcome(json_array(<<>>),
            <<ok, StringTerm(to_string(json_array(<<>>)))>>)

validate_links(links_json) ==
    Outcome(json_array(<<>>),
            <<ok, StringTerm(to_string(json_array(<<>>)))>>)

\* rustler::init! (lib.rs 66-69): the functions the module exports
Nifs == {"parse_markdown", "extract_links", "extract_headings",
         "validate_links"}

(***************************************************************************)
(* Inputs.  A fragment is a short byte string; an input is a run of        *)
(* one-letter words or a concatenation of fragments.                       *)
(***************************************************************************)
\* "# Title\n\nSee [other](other.md) and [ext](https://x.com).\n"
\* "- [x] done\n- [ ] todo\n"
ExampleDoc ==
    <<35, 32, 84, 105, 116, 108, 101, 10, 10, 83, 101, 101, 32, 91, 111,
      116, 104, 101, 114, 93, 40, 111, 116, 104, 101, 114, 46, 109, 100, 41,
      32, 97, 110, 100, 32, 91, 101, 120, 116, 93, 40, 104, 116, 116, 112,
      115, 58, 47, 47, 120, 46, 99, 111, 109, 41, 46, 10, 45, 32, 91, 120,
      93, 32, 100, 111, 110, 101, 10, 45, 32, 91, 32, 93, 32, 116, 111, 100,
      111, 10>>
\* "```\n"
FenceLine == <<96, 96, 96, 10>>
\* "foo bar\n"
CodeLine == <<102, 111, 111, 32, 98, 97, 114, 10>>
\* "```\nfoo bar\n```\n"
FencedBlock == FenceLine \o CodeLine \o FenceLine
\* "```\nfoo bar\n"
OpenFence == FenceLine \o CodeLine
\* "---\ntitle: x\n---\n"
FrontmatterBlock ==
    <<45, 45, 45, 10, 116, 105, 116, 108, 101, 58, 32, 120, 10, 45, 45, 45,
      10>>
\* "two words\n"
Paragraph == <<116, 119, 111, 32, 119, 111, 114, 100, 115, 10>>

Frags ==
    { <<97>>,                  \* a
      <<32>>,                  \* space
      <<10>>,                  \* line feed
      <<194, 160>>,            \* U+00A0 no-break space
      <<195, 169>>,            \* U+00E9
      <<226, 128, 131>>,       \* U+2003 em space
      <<240, 159, 152, 128>>,  \* U+1F600
      <<195>>,                 \* a leading byte alone
      <<169>>,                 \* a continuation byte alone
      <<255>>,                 \* never valid
      <<192, 128>>,            \* overlong encoding of U+0000
      <<237, 160, 128>>,       \* the surrogate U+D800
      FenceLine, CodeLine, FrontmatterBlock, Paragraph, ExampleDoc }

CallFrags ==
    { Paragraph, FencedBlock, OpenFence, FrontmatterBlock, <<255>> }

RECURSIVE Concats(_, _)
Concats(frags, n) ==
    IF n = 0 THEN {<<>>}
    ELSE LET shorter == Concats(frags, n - 1)
         IN  shorter \cup {x \o f : x \in shorter, f \in frags}

WordRun(k, sep) == [i \in 1..(2 * k) |-> IF i % 2 = 1 THEN 119 ELSE sep]

Inputs ==
    Concats(Frags, MaxFrags)
        \cup {WordRun(k, sep) : k \in 0..MaxWords, sep \in {32, 10}}

CallInputs == Concats(CallFrags, MaxCallFrags)

(***************************************************************************)
(* The state machine: a caller invokes one NIF on one binary (pc =         *)
(* "called"), the NIF runs to completion and returns (pc = "returned").    *)
(***************************************************************************)
Return(outcome) ==
    /\ result' = outcome.result
    /\ ret' = outcome.ret
    /\ pc' = "returned"
    /\ UNCHANGED <<op, binary, memo>>

ParseMarkdown ==
    /\ pc = "called" /\ op = "parse_markdown"
    /\ Return(parse_markdown(binary))

ExtractLinks ==
    /\ pc = "called" /\ op = "extract_links"
    /\ Return(extract_links(binary))

ExtractHeadings ==
    /\ pc = "called" /\ op = "extract_headings"
    /\ Return(extract_headings(binary))

ValidateLinks ==
    /\ pc = "called" /\ op = "validate_links"
    /\ Return(validate_links(binary))

\* the caller makes the next call; memo remembers one earlier call
Invoke ==
    /\ pc = "returned"
    /\ \E f \in Nifs, b \in CallInputs :
          /\ op' = f
          /\ binary' = b
    /\ memo' \in {memo, [op |-> op, binary |-> binary, result |-> result,
                         ret |-> ret]}
    /\ pc' = "called"
    /\ result' = Unset
    /\ ret' = Unset

Init ==
    /\ pc = "called"
    /\ op \in Nifs
    /\ binary \in Inputs
    /\ result = Unset
    /\ ret = Unset
    /\ memo = Unset

InitCalls ==
    /\ pc = "called"
    /\ op \in Nifs
    /\ binary \in CallInputs
    /\ result = Unset
    /\ ret = Unset
    /\ memo = Unset

Next == ParseMarkdown \/ ExtractLinks \/ ExtractHeadings \/ ValidateLinks

NextCalls == Next \/ Invoke

\* one call of one NIF on one input
Spec == Init /\ [][Next]_vars

\* any sequence of calls
SpecCalls == InitCalls /\ [][NextCalls]_vars

(***************************************************************************)
(* Properties                                                              *)
(***************************************************************************)
\* C1: for every valid UTF-8 input parse_markdown returns word_count >= 0
\* and reading_time_minutes = max(1, ceil(word_count / 200)) when
\* word_count > 0, and 0 when word_count = 0.
C1_ReadingTime ==
    (pc = "returned" /\ op = "parse_markdown" /\ from_utf8(binary).ok) =>
        /\ result # Unset
        /\ LET wc == result.o.word_count.n
               rt == result.o.reading_time_minutes.n
               ceil == CHOOSE q \in 0..wc : q * 200 >= wc /\ (q - 1) * 200 < wc
           IN  /\ wc >= 0
               /\ IF wc > 0
                  THEN rt = (IF ceil > 1 THEN ceil ELSE 1)
                  ELSE rt = 0

\* 201 words read in 2 minutes
C1_Witness ==
    /\ pc = "returned" /\ op = "parse_markdown"
    /\ result # Unset
    /\ result.o.word_count.n = 201
    /\ result.o.reading_time_minutes.n = 2

\* C2: when the input is not valid UTF-8, parse_markdown returns the error
\* outcome tagged with the invalid-input atom and builds no Document.
C2_InvalidEncoding ==
    (pc = "returned" /\ op = "parse_markdown" /\ ~from_utf8(binary).ok) =>
        /\ ret = <<error, invalid_markdown>>
        /\ result = Unset

\* a leading byte with nothing after it is rejected
C2_Witness ==
    /\ pc = "returned" /\ op = "parse_markdown"
    /\ binary = <<195>>
    /\ ret = <<error, invalid_markdown>>

\* C3: every successful parse_markdown result is a record whose field set
\* is exactly the ten canonical fields.
C3_FieldSet ==
    (pc = "returned" /\ op = "parse_markdown" /\ ret[1] = ok) =>
        /\ result.t = "object"
        /\ DOMAIN result.o =
             {"links", "headings", "code_blocks", "tasks", "word_count",
              "reading_time_minutes", "metadata", "table_of_contents",
              "backlinks", "frontmatter"}

\* a two-word paragraph parsed into a record with ten fields
C3_Witness ==
    /\ pc = "returned" /\ op = "parse_markdown"
    /\ binary = Paragraph
    /\ ret[1] = ok
    /\ Cardinality(DOMAIN result.o) = 10

\* C4: parse_markdown succeeds with a complete Document on every valid
\* UTF-8 input; for the empty input every collection is empty and
\* word_count and reading_time_minutes are 0.
C4_Total ==
    (pc = "returned" /\ op = "parse_markdown" /\ from_utf8(binary).ok) =>
        /\ ret[1] = ok
        /\ result.t = "object"
        /\ \A k \in {"links", "headings", "code_blocks", "tasks",
                     "word_count", "reading_time_minutes", "metadata",
                     "table_of_contents", "backlinks", "frontmatter"} :
              k \in DOMAIN result.o
        /\ binary = <<>> =>
              /\ \A k \in {"links", "headings", "code_blocks", "tasks",
                           "table_of_contents", "backlinks"} :
                    result.o[k] = [t |-> "array", a |-> <<>>]
              /\ result.o.word_count = [t |-> "number", n |-> 0]
              /\ result.o.reading_time_minutes = [t |-> "number", n |-> 0]

\* the empty input parsed successfully
C4_Witness ==
    /\ pc = "returned" /\ op = "parse_markdown"
    /\ binary = <<>>
    /\ ret[1] = ok

\* C5: word_count leaves out code block content and frontmatter, so a
\* document followed by a fenced code block, or preceded by a frontmatter
\* block, has the word_count of the document alone.
C5_CodeAndFrontmatterNotCounted ==
    ( /\ pc = "returned" /\ op = "parse_markdown" /\ ret[1] = ok
      /\ memo # Unset /\ memo.op = "parse_markdown" /\ memo.ret[1] = ok
      /\ \/ binary = memo.binary \o FencedBlock
         \/ binary = FrontmatterBlock \o memo.binary ) =>
        result.o.word_count = memo.result.o.word_count

\* C6: the example document yields one level-1 heading, an internal and an
\* external link in source order, a checked and an unchecked task, and a
\* reading time of 1.
C6_ExampleStructure ==
    (pc = "returned" /\ op = "parse_markdown" /\ binary = ExampleDoc) =>
        /\ ret[1] = ok
        /\ result.o.reading_time_minutes.n = 1
        /\ Len(result.o.headings.a) = 1
        /\ result.o.headings.a[1].o.level = [t |-> "number", n |-> 1]
        /\ Len(result.o.links.a) = 2
        /\ result.o.links.a[1].o.kind = [t |-> "string", s |-> "internal"]
        /\ result.o.links.a[2].o.kind = [t |-> "string", s |-> "external"]
        /\ Len(result.o.tasks.a) = 2
        /\ result.o.tasks.a[1].o.checked = [t |-> "bool", b |-> TRUE]
        /\ result.o.tasks.a[2].o.checked = [t |-> "bool", b |-> FALSE]

C8_NoBacklinks ==
    (pc = "returned" /\ op = "parse_markdown" /\ ret[1] = ok) =>
        result.o.backlinks = [t |-> "array", a |-> <<>>]

\* a document with two links parsed with no backlinks
C8_Witness ==
    /\ pc = "returned" /\ op = "parse_markdown"
    /\ binary = ExampleDoc
    /\ ret[1] = ok
    /\ result.o.backlinks.a = <<>>

\* C9: a fenced code block that is never closed is reported as exactly one
\* entry of code_blocks.
C9_OpenFenceIsOneCodeBlock ==
    (pc = "returned" /\ op = "parse_markdown" /\ binary = OpenFence) =>
        /\ ret[1] = ok
        /\ Len(result.o.code_blocks.a) = 1

\* C10: extract_links, extract_headings and validate_links return ok with an
\* empty JSON array on every input; the only error any function returns is
\* parse_markdown's invalid-input error, and processing_error is never
\* returned.
C10_NoErrors ==
    pc = "returned" =>
        /\ op # "parse_markdown" => ret = <<ok, [binary |-> "[]"]>>
        /\ ret[1] = error => op = "parse_markdown"
                               /\ ret = <<error, invalid_markdown>>
        /\ \A i \in 1..Len(ret) : ret[i] # processing_error

\* extract_links given a byte that is never valid UTF-8
C10_Witness ==
    /\ pc = "returned" /\ op = "extract_links"
    /\ binary = <<255>>
    /\ ret = <<ok, [binary |-> "[]"]>>
====
